---- MODULE Spec2Model ----
(***************************************************************************)
(* A model of the aoko helper crate: the free functions of                 *)
(* standard/fun.rs (read_line, wait_enter, swap_xor, measure_time,         *)
(* measure_time_with_value, time_conversion, time_conversion_with_unit)    *)
(* and the swap forms of no_std/macros/declarative.rs (swap!, swap_mut!).  *)
(*                                                                         *)
(* The crate keeps no state between calls, so a behaviour is one call:     *)
(* Init draws the function called (op) and its inputs (arg), the actions   *)
(* run that call to its return ("done") or its panic ("panicked").         *)
(***************************************************************************)
EXTENDS Integers, Sequences, FiniteSets

VARIABLES
    op,      \* the function or macro called
    arg,     \* its inputs, as passed (never changed)
    pc,      \* position of the call: "call", ..., "done" | "panicked"; "assigned"
             \* once the caller has assigned to a name a swap form bound
    ret,     \* what the call returned (or the panic it raised)
    cells,   \* swap_xor: the two integers behind the references a and b
    pos,     \* stdin: how many items of arg.input have been consumed
    reads,   \* every read_line call made so far, in order
    now,     \* the host's monotonic clock
    start,   \* the Instant taken by Instant::now()
    ftrace,  \* every invocation of the measured closure f: [beg, end, out]
    fn,      \* the closure time_conversion returned
    label,   \* the unit string time_conversion_with_unit returned
    scope,   \* swap forms: the bindings in scope, oldest first
    k        \* swap forms: how many pairs have been expanded and executed

vars == <<op, arg, pc, ret, cells, pos, reads, now, start, ftrace, fn, label, scope, k>>

(***************************************************************************)
(* Bounds of the model.                                                    *)
(***************************************************************************)
\* width, in bits, of the integer type T of swap_xor
Bits == 3
\* longest standard-input stream
MaxStream == 5
\* largest whole-second part of a Duration handed to a conversion
MaxSecs == 2
\* largest first clock reading, longest run of f, largest scheduling lag
MaxClock == 2
MaxFDur == 3
MaxLag == 1
\* most name pairs handed to a swap form
MaxPairs == 2

(***************************************************************************)
(* Return values.                                                          *)
(***************************************************************************)
NoRet == [kind |-> "pending", val |-> <<>>]
Unit == [kind |-> "unit", val |-> <<>>]
None == [kind |-> "None", val |-> <<>>]
Some(v) == [kind |-> "Some", val |-> v]
Panic(msg) == [kind |-> "panic", val |-> msg]

(***************************************************************************)
(* swap_xor                                                                *)
(***************************************************************************)
IntT == 0 .. (2 ^ Bits - 1)

\* T's BitXorAssign on the bit patterns of two integers
RECURSIVE BitXor(_, _)
BitXor(x, y) ==
    IF x = 0 THEN y
    ELSE IF y = 0 THEN x
    ELSE (((x % 2) + (y % 2)) % 2) + 2 * BitXor(x \div 2, y \div 2)

\* faulty variant: the third statement is forgotten
swap_xor_two_steps(a, b) ==
    LET a1 == BitXor(a, b)
        b1 == BitXor(b, a1)
    IN  [a |-> a1, b |-> b1]

\* *a ^= *b; *b ^= *a; *a ^= *b;  on two distinct referents (&mut never aliases)
swap_xor(a, b) ==
    LET a1 == BitXor(a, b)
        b1 == BitXor(b, a1)
        a2 == BitXor(a1, b1)
    IN  [a |-> a2, b |-> b1]

SwapXorCall ==
    /\ op = "swap_xor"
    /\ pc = "call"
    /\ cells' = swap_xor(cells.a, cells.b)
    /\ ret' = Unit
    /\ pc' = "done"
    /\ UNCHANGED <<op, arg, pos, reads, now, start, ftrace, fn, label, scope, k>>

(***************************************************************************)
(* read_line and wait_enter                                                *)
(***************************************************************************)
\* ERR: the underlying read fails at this point of the stream
\* BAD: a byte that is not valid UTF-8
ERR == "ERR"
BAD == "BAD"
Chars == {"a", "b", " ", "\n"}
Items == Chars \cup {ERR, BAD}
\* char::is_whitespace, for the characters of the model and their relatives
Whitespace == {" ", "\n", "\t", "\r"}

Streams == UNION {[1 .. n -> Items] : n \in 0 .. MaxStream}

\* Stdin::read_line(&mut s) on an empty s: takes the stream up to and
\* including the next "\n", or up to its end, or up to the point where the
\* read fails.  What was taken is appended to s when it is valid UTF-8 and
\* dropped otherwise; the Result is Ok only if the read did not fail and
\* the text was valid.
AppendToString(taken, q, read_ok) ==
    IF \E i \in 1 .. Len(taken) : taken[i] = BAD
    THEN [buf |-> <<>>, pos |-> q, ok |-> FALSE]
    ELSE [buf |-> taken, pos |-> q, ok |-> read_ok]

RECURSIVE StdinReadLine(_, _, _)
StdinReadLine(input, p, taken) ==
    IF p = Len(input) THEN AppendToString(taken, p, TRUE)
    ELSE IF input[p + 1] = ERR THEN AppendToString(taken, p + 1, FALSE)
    ELSE IF input[p + 1] = "\n" THEN AppendToString(Append(taken, "\n"), p + 1, TRUE)
    ELSE StdinReadLine(input, p + 1, Append(taken, input[p + 1]))

\* faulty variant: str::trim, which strips both ends
RECURSIVE trim_both(_)
trim_both(s) ==
    IF s = <<>> THEN s
    ELSE IF s[Len(s)] \in Whitespace THEN trim_both(SubSeq(s, 1, Len(s) - 1))
    ELSE IF s[1] \in Whitespace THEN trim_both(SubSeq(s, 2, Len(s)))
    ELSE s

\* str::trim_end
RECURSIVE trim_end(_)
trim_end(s) ==
    IF s = <<>> THEN s
    ELSE IF s[Len(s)] \in Whitespace THEN trim_end(SubSeq(s, 1, Len(s) - 1))
    ELSE s

\* read_line(): the Result of the read is dropped by also_mut's closure
read_line(input, p) ==
    LET r == StdinReadLine(input, p, <<>>)
        s == trim_end(r.buf)
    IN  [buf |-> r.buf, ok |-> r.ok, pos |-> r.pos,
         ret |-> IF Len(s) > 0 THEN Some(s) ELSE None]

ReadLineCall ==
    /\ op = "read_line"
    /\ pc = "call"
    /\ LET r == read_line(arg.input, pos)
       IN  /\ reads' = Append(reads, r)
           /\ pos' = r.pos
           /\ ret' = r.ret
    /\ pc' = "done"
    /\ UNCHANGED <<op, arg, cells, now, start, ftrace, fn, label, scope, k>>

\* faulty variant: one line is read and the function returns, whatever it was
WaitEnterOnce ==
    /\ op = "wait_enter"
    /\ pc = "call"
    /\ LET r == read_line(arg.input, pos)
       IN  /\ reads' = Append(reads, r)
           /\ pos' = r.pos
    /\ pc' = "done"
    /\ ret' = Unit
    /\ UNCHANGED <<op, arg, cells, now, start, ftrace, fn, label, scope, k>>

\* while read_line() != None {}  -- one iteration
WaitEnterIter ==
    /\ op = "wait_enter"
    /\ pc = "call"
    /\ LET r == read_line(arg.input, pos)
       IN  /\ reads' = Append(reads, r)
           /\ pos' = r.pos
           /\ IF r.ret.kind # "None"
              THEN pc' = "call" /\ ret' = ret
              ELSE pc' = "done" /\ ret' = Unit
    /\ UNCHANGED <<op, arg, cells, now, start, ftrace, fn, label, scope, k>>

(***************************************************************************)
(* measure_time and measure_time_with_value                                *)
(***************************************************************************)
MeasureOps == {"measure_time", "measure_time_with_value"}

\* Instant::elapsed: the clock now, less the Instant, never below zero
Elapsed(s, t) == IF t >= s THEN t - s ELSE 0

\* Instant::now(), the receiver of also_ref / let_owned
MeasureNow ==
    /\ op \in MeasureOps
    /\ pc = "call"
    /\ start' = now
    /\ \E lag \in 0 .. MaxLag : now' = now + lag
    /\ pc' = "f"
    /\ UNCHANGED <<op, arg, ret, cells, pos, reads, ftrace, fn, label, scope, k>>

\* f(): runs for arg.f.dur on the calling thread; returns arg.f.out or panics
MeasureRunF ==
    /\ op \in MeasureOps
    /\ pc = "f"
    /\ now' = now + arg.f.dur
    /\ ftrace' = Append(ftrace, [beg |-> now, end |-> now', out |-> arg.f.out])
    /\ IF arg.f.out = "panic"
       THEN pc' = "panicked" /\ ret' = Panic("f")
       ELSE pc' = "elapsed" /\ ret' = ret
    /\ UNCHANGED <<op, arg, cells, pos, reads, start, fn, label, scope, k>>

\* faulty variant: the Instant is taken after f has run
MeasureTimeLateStart ==
    /\ op = "measure_time"
    /\ pc = "elapsed"
    /\ \E lag \in 0 .. MaxLag :
          /\ now' = now + lag
          /\ ret' = [kind |-> "Duration",
                     val |-> Elapsed(ftrace[Len(ftrace)].end, now')]
    /\ pc' = "done"
    /\ UNCHANGED <<op, arg, cells, pos, reads, start, ftrace, fn, label, scope, k>>

\* measure_time: .elapsed() on the Instant, once also_ref has run f
MeasureTimeElapsed ==
    /\ op = "measure_time"
    /\ pc = "elapsed"
    /\ \E lag \in 0 .. MaxLag :
          /\ now' = now + lag
          /\ ret' = [kind |-> "Duration",
                     val |-> Elapsed(start, now')]
    /\ pc' = "done"
    /\ UNCHANGED <<op, arg, cells, pos, reads, start, ftrace, fn, label, scope, k>>

\* faulty variant: f's value is dropped, as measure_time drops it
MeasureTimeWithValueDropped ==
    /\ op = "measure_time_with_value"
    /\ pc = "elapsed"
    /\ \E lag \in 0 .. MaxLag :
          /\ now' = now + lag
          /\ ret' = [kind |-> "Pair",
                     val |-> [r |-> "unit", d |-> Elapsed(start, now')]]
    /\ pc' = "done"
    /\ UNCHANGED <<op, arg, cells, pos, reads, start, ftrace, fn, label, scope, k>>

\* measure_time_with_value: (f(), s.elapsed()), evaluated left to right
MeasureTimeWithValueElapsed ==
    /\ op = "measure_time_with_value"
    /\ pc = "elapsed"
    /\ \E lag \in 0 .. MaxLag :
          /\ now' = now + lag
          /\ ret' = [kind |-> "Pair",
                     val |-> [r |-> ftrace[Len(ftrace)].out,
                              d |-> Elapsed(start, now')]]
    /\ pc' = "done"
    /\ UNCHANGED <<op, arg, cells, pos, reads, start, ftrace, fn, label, scope, k>>

(***************************************************************************)
(* time_conversion and time_conversion_with_unit                           *)
(*                                                                         *)
(* A Duration is [secs, nanos] with nanos < 10^9, as in core::time.  A     *)
(* u128 count is kept in two limbs, [hi, lo] = hi * 10^9 + lo with         *)
(* lo < 10^9, so that a nanosecond count stays exact.                      *)
(***************************************************************************)
ConvOps == {"time_conversion", "time_conversion_with_unit"}
Supported == {"nanos", "micros", "millis", "secs"}
Units == Supported \cup {"bogus", "Secs", "NANOS", "", "sec", "millis "}
SubsecSamples == {0, 1, 999, 1000, 999999, 1000000, 500000000, 999999999}
Durations == [secs : 0 .. MaxSecs, nanos : SubsecSamples]

U128(n) == [hi |-> n \div 1000000000, lo |-> n % 1000000000]

\* Duration::as_nanos, as_micros, as_millis, as_secs
as_nanos(d) == [hi |-> d.secs, lo |-> d.nanos]
as_micros(d) == U128(d.secs * 1000000 + d.nanos \div 1000)
\* faulty variant: Duration::subsec_millis, the fraction alone
subsec_millis(d) == U128(d.nanos \div 1000000)
as_millis(d) == U128(d.secs * 1000 + d.nanos \div 1000000)
as_secs(d) == U128(d.secs)

\* faulty variant: an unknown unit falls back to seconds
time_conversion_default_secs(u) ==
    CASE u = "nanos" -> [ok |-> TRUE, f |-> "as_nanos"]
      [] u = "micros" -> [ok |-> TRUE, f |-> "as_micros"]
      [] u = "millis" -> [ok |-> TRUE, f |-> "as_millis"]
      [] OTHER -> [ok |-> TRUE, f |-> "as_secs"]

\* match u { "nanos" => .., "micros" => .., "millis" => .., "secs" => .., _ => panic! }
time_conversion(u) ==
    CASE u = "nanos" -> [ok |-> TRUE, f |-> "as_nanos"]
      [] u = "micros" -> [ok |-> TRUE, f |-> "as_micros"]
      [] u = "millis" -> [ok |-> TRUE, f |-> "as_millis"]
      [] u = "secs" -> [ok |-> TRUE, f |-> "as_secs"]
      [] OTHER -> [ok |-> FALSE, f |-> "unsupported unit"]

\* faulty variant: the pair carries the name of the function, not the caller's string
time_conversion_with_unit_renamed(u) ==
    LET r == time_conversion(u)
    IN  [ok |-> r.ok, f |-> r.f, u |-> r.f]

\* time_conversion(&u).let_owned(|f| (f, u))
time_conversion_with_unit(u) ==
    LET r == time_conversion(u)
    IN  [ok |-> r.ok, f |-> r.f, u |-> u]

\* the closure, called with a Duration
Apply(f, d) ==
    CASE f = "as_nanos" -> as_nanos(d)
      [] f = "as_micros" -> as_micros(d)
      [] f = "as_millis" -> as_millis(d)
      [] f = "as_secs" -> as_secs(d)

TimeConversionCall ==
    /\ op = "time_conversion"
    /\ pc = "call"
    /\ LET r == time_conversion(arg.unit)
       IN  IF r.ok
           THEN fn' = r.f /\ pc' = "closure" /\ ret' = ret
           ELSE fn' = fn /\ pc' = "panicked" /\ ret' = Panic(r.f)
    /\ UNCHANGED <<op, arg, cells, pos, reads, now, start, ftrace, label, scope, k>>

TimeConversionWithUnitCall ==
    /\ op = "time_conversion_with_unit"
    /\ pc = "call"
    /\ LET r == time_conversion_with_unit(arg.unit)
       IN  IF r.ok
           THEN fn' = r.f /\ label' = r.u /\ pc' = "closure" /\ ret' = ret
           ELSE fn' = fn /\ label' = label /\ pc' = "panicked" /\ ret' = Panic(r.f)
    /\ UNCHANGED <<op, arg, cells, pos, reads, now, start, ftrace, scope, k>>

\* the caller applies the FnOnce it was given, once
ClosureCall ==
    /\ op \in ConvOps
    /\ pc = "closure"
    /\ ret' = [kind |-> "u128", val |-> Apply(fn, arg.dur)]
    /\ pc' = "done"
    /\ UNCHANGED <<op, arg, cells, pos, reads, now, start, ftrace, fn, label, scope, k>>

(***************************************************************************)
(* swap! and swap_mut!                                                     *)
(*                                                                         *)
(* The scope is the list of let bindings executed so far; a name resolves  *)
(* to its latest binding, which shadows the earlier ones.                  *)
(***************************************************************************)
SwapOps == {"swap", "swap_mut"}
Names == {"a", "b", "c", "d"}
\* let ($b, $a) = ($a, $b) binds each name once: the two names of a pair differ
NamePairs == {p \in Names \X Names : p[1] # p[2]}
PairLists == UNION {[1 .. n -> NamePairs] : n \in 0 .. MaxPairs}
Envs == {[a |-> 1, b |-> 2, c |-> 3, d |-> 4],
         [a |-> 4, b |-> 3, c |-> 2, d |-> 1],
         [a |-> 7, b |-> 7, c |-> 0, d |-> 9]}
\* a = 10; b = 20; c = 30; d = 40;
NewValue == [a |-> 10, b |-> 20, c |-> 30, d |-> 40]

\* let (a, b, c, d) = (..);
LetAll(env) ==
    <<[name |-> "a", val |-> env["a"], mut |-> FALSE],
      [name |-> "b", val |-> env["b"], mut |-> FALSE],
      [name |-> "c", val |-> env["c"], mut |-> FALSE],
      [name |-> "d", val |-> env["d"], mut |-> FALSE]>>

Resolve(sc, n) == CHOOSE i \in 1 .. Len(sc) :
    /\ sc[i].name = n
    /\ \A j \in (i + 1) .. Len(sc) : sc[j].name # n
Lookup(sc, n) == sc[Resolve(sc, n)]

\* faulty variant: the pattern names the pair in the order of the tuple
swap_same_order(sc, p) ==
    sc \o <<[name |-> p[1], val |-> Lookup(sc, p[1]).val, mut |-> FALSE],
            [name |-> p[2], val |-> Lookup(sc, p[2]).val, mut |-> FALSE]>>

\* swap!:  let ($b, $a) = ($a, $b);
swap(sc, p) ==
    sc \o <<[name |-> p[2], val |-> Lookup(sc, p[1]).val, mut |-> FALSE],
            [name |-> p[1], val |-> Lookup(sc, p[2]).val, mut |-> FALSE]>>

\* swap_mut!:  let (mut $b, mut $a) = ($a, $b);
swap_mut(sc, p) ==
    sc \o <<[name |-> p[2], val |-> Lookup(sc, p[1]).val, mut |-> TRUE],
            [name |-> p[1], val |-> Lookup(sc, p[2]).val, mut |-> TRUE]>>

\* $( ... )* : the statement of the next pair, left to right
SwapExpand ==
    /\ op = "swap"
    /\ pc = "call"
    /\ k < Len(arg.pairs)
    /\ scope' = swap(scope, arg.pairs[k + 1])
    /\ k' = k + 1
    /\ UNCHANGED <<op, arg, pc, ret, cells, pos, reads, now, start, ftrace, fn, label>>

SwapMutExpand ==
    /\ op = "swap_mut"
    /\ pc = "call"
    /\ k < Len(arg.pairs)
    /\ scope' = swap_mut(scope, arg.pairs[k + 1])
    /\ k' = k + 1
    /\ UNCHANGED <<op, arg, pc, ret, cells, pos, reads, now, start, ftrace, fn, label>>

\* the expansion has no statement left
SwapEnd ==
    /\ op \in SwapOps
    /\ pc = "call"
    /\ k = Len(arg.pairs)
    /\ pc' = "done"
    /\ ret' = Unit
    /\ UNCHANGED <<op, arg, cells, pos, reads, now, start, ftrace, fn, label, scope, k>>

\* n = NewValue[n];  compiles only for a name whose binding in scope is mut
Reassign(n) ==
    /\ op \in SwapOps
    /\ pc \in {"done", "assigned"}
    /\ Lookup(scope, n).mut
    /\ Lookup(scope, n).val # NewValue[n]
    /\ scope' = [scope EXCEPT ![Resolve(scope, n)].val = NewValue[n]]
    /\ pc' = "assigned"
    /\ UNCHANGED <<op, arg, ret, cells, pos, reads, now, start, ftrace, fn, label, k>>

(***************************************************************************)
(* The calls.                                                              *)
(***************************************************************************)
Ops == {"swap_xor", "read_line", "wait_enter"} \cup MeasureOps \cup ConvOps \cup SwapOps
Outs == {"unit", "v1", "v2", "panic"}

Args(o) ==
    CASE o = "swap_xor" -> [a : IntT, b : IntT]
      [] o \in {"read_line", "wait_enter"} -> [input : Streams]
      [] o \in MeasureOps -> [t0 : 0 .. MaxClock, f : [dur : 0 .. MaxFDur, out : Outs]]
      [] o \in ConvOps -> [unit : Units, dur : Durations]
      [] o \in SwapOps -> [env : Envs, pairs : PairLists]

Init ==
    /\ op \in Ops
    /\ arg \in Args(op)
    /\ pc = "call"
    /\ ret = NoRet
    /\ cells = IF op = "swap_xor" THEN [a |-> arg.a, b |-> arg.b] ELSE [a |-> 0, b |-> 0]
    /\ pos = 0
    /\ reads = <<>>
    /\ now = IF op \in MeasureOps THEN arg.t0 ELSE 0
    /\ start = 0
    /\ ftrace = <<>>
    /\ fn = "none"
    /\ label = ""
    /\ scope = IF op \in SwapOps THEN LetAll(arg.env) ELSE <<>>
    /\ k = 0

Next ==
    \/ SwapXorCall
    \/ ReadLineCall
    \/ WaitEnterIter
    \/ MeasureNow
    \/ MeasureRunF
    \/ MeasureTimeElapsed
    \/ MeasureTimeWithValueElapsed
    \/ TimeConversionCall
    \/ TimeConversionWithUnitCall
    \/ ClosureCall
    \/ SwapExpand
    \/ SwapMutExpand
    \/ SwapEnd
    \/ \E n \in Names : Reassign(n)

Spec == Init /\ [][Next]_vars

\* the calling thread keeps running: a blocked read returns once its line,
\* or the end of the stream, is there
FairSpec == Spec /\ WF_vars(Next)

(***************************************************************************)
(* Properties.                                                             *)
(***************************************************************************)

\* C1: after swap_xor(a, b) on two integers held at distinct locations, the
\* first location holds the old value of b and the second the old value of
\* a, equal values included.
C1_SwapXorExchanges ==
    (op = "swap_xor" /\ pc = "done") => (cells.a = arg.b /\ cells.b = arg.a)

C1_Witness ==
    /\ op = "swap_xor" /\ pc = "done"
    /\ arg = [a |-> 5, b |-> 3]
    /\ cells = [a |-> 3, b |-> 5]

\* where the read before the i-th one left the stream
PosBefore(i) == IF i = 1 THEN 0 ELSE reads[i - 1].pos
\* the text a read_line call returned, empty when it returned None
TextOf(r) == IF r.ret.kind = "Some" THEN r.ret.val ELSE <<>>

\* C2: for every line read, read_line removes only trailing whitespace and
\* line terminators (leading whitespace is kept), returns None exactly when
\* what remains has zero length, and otherwise returns Some of exactly that
\* text.
C2_ReadLineTrimsEnd ==
    op \in {"read_line", "wait_enter"} =>
        \A i \in 1 .. Len(reads) :
            LET r == reads[i]
                t == TextOf(r)
            IN  /\ r.ok => r.buf = SubSeq(arg.input, PosBefore(i) + 1, r.pos)
                /\ r.ret.kind \in {"Some", "None"}
                /\ Len(t) <= Len(r.buf)
                /\ t = SubSeq(r.buf, 1, Len(t))
                /\ \A j \in (Len(t) + 1) .. Len(r.buf) : r.buf[j] \in Whitespace
                /\ t # <<>> => t[Len(t)] \notin Whitespace
                /\ r.ret.kind = "None" <=> Len(t) = 0
                /\ (op = "read_line" /\ pc = "done") => ret = r.ret

C2_Witness ==
    /\ op = "read_line" /\ pc = "done"
    /\ reads[1].ok
    /\ reads[1].buf = <<" ", "a", " ", "\n">>
    /\ ret = Some(<<" ", "a">>)

\* C3: when the underlying read fails, read_line raises a fatal error and
\* does not return None; None is returned only when the line that was read
\* is empty after trimming.
C3_ReadFailureIsFatal ==
    (op = "read_line" /\ pc # "call") =>
        /\ ~reads[1].ok => (pc = "panicked" /\ ret.kind = "panic")
        /\ ret.kind = "None" => reads[1].ok

C3_Witness ==
    /\ op = "read_line" /\ pc = "done"
    /\ ~reads[1].ok
    /\ ret = None

Terminators == {"\n", ERR}
\* what the i-th read_line call took off the stream
Consumed(i) == SubSeq(arg.input, PosBefore(i) + 1, reads[i].pos)

\* the calls wait_enter has made: each took one line off the stream, through
\* its terminator or to the end of the stream, every call but the last
\* returned Some, and wait_enter has returned exactly if the last returned
\* None; nothing was read after that call
C4_OneLinePerCall ==
    op = "wait_enter" =>
        /\ pos = PosBefore(Len(reads) + 1)
        /\ \A i \in 1 .. Len(reads) :
              LET c == Consumed(i)
              IN  /\ PosBefore(i) <= reads[i].pos
                  /\ \A j \in 1 .. (Len(c) - 1) : c[j] \notin Terminators
                  /\ (c = <<>> \/ c[Len(c)] \notin Terminators) => reads[i].pos = Len(arg.input)
                  /\ i < Len(reads) => reads[i].ret.kind = "Some"
        /\ pc \in {"call", "done"}
        /\ pc = "done" <=> (reads # <<>> /\ reads[Len(reads)].ret.kind = "None")
        /\ (pc = "done" /\ arg.input = <<"a", "\n", "b", "\n", "\n">>)
               => (Len(reads) = 3 /\ pos = 5)

\* C4: wait_enter calls read_line repeatedly and returns exactly at the
\* first call that yields None, consuming one line per call and no line
\* after that one; on "a\nb\n\n" it consumes three lines and returns after
\* the third; on any finite input stream it eventually returns.
C4_WaitEnter ==
    /\ []C4_OneLinePerCall
    /\ (op = "wait_enter") ~> (pc = "done")

C4_Witness ==
    /\ op = "wait_enter" /\ pc = "done"
    /\ arg.input = <<"a", "\n", "b", "\n", "\n">>
    /\ Len(reads) = 3
    /\ reads[3].buf = <<"\n">>

\* C5: time_conversion(unit) returns a function only when unit is exactly
\* "nanos", "micros", "millis" or "secs"; for every other string it panics
\* at once with "unsupported unit" and returns no function.
C5_UnsupportedUnitPanics ==
    (op = "time_conversion" /\ pc # "call") =>
        /\ arg.unit \in Supported <=> pc \in {"closure", "done"}
        /\ arg.unit \notin Supported =>
              (pc = "panicked" /\ ret = Panic("unsupported unit") /\ fn = "none")
        /\ pc \in {"closure", "done"} => fn \in {"as_nanos", "as_micros", "as_millis", "as_secs"}

C5_Witness ==
    /\ op = "time_conversion" /\ pc = "panicked"
    /\ arg.unit = "Secs"
    /\ ret = Panic("unsupported unit")

\* nanoseconds in one unit
UnitNanos(u) ==
    CASE u = "nanos" -> 1
      [] u = "micros" -> 1000
      [] u = "millis" -> 1000000
      [] u = "secs" -> 1000000000
\* the Duration that n units of scale last
OfUnits(n, scale) ==
    LET perSec == 1000000000 \div scale
    IN  [secs |-> n.hi * scale + n.lo \div perSec, nanos |-> (n.lo % perSec) * scale]
Succ(n) == IF n.lo = 999999999 THEN [hi |-> n.hi + 1, lo |-> 0] ELSE [hi |-> n.hi, lo |-> n.lo + 1]
DurLE(x, y) == x.secs < y.secs \/ (x.secs = y.secs /\ x.nanos <= y.nanos)

\* C6: the function time_conversion returns for a unit yields the number of
\* whole units in the duration d, truncated: that many units last no longer
\* than d, one more lasts longer.  "millis" on 2 s gives 2000, "secs" on
\* 2500 ms gives 2.
C6_WholeUnitsTruncated ==
    (op = "time_conversion" /\ pc = "done") =>
        /\ ret.kind = "u128"
        /\ DurLE(OfUnits(ret.val, UnitNanos(arg.unit)), arg.dur)
        /\ ~DurLE(OfUnits(Succ(ret.val), UnitNanos(arg.unit)), arg.dur)
        /\ (arg.unit = "millis" /\ arg.dur = [secs |-> 2, nanos |-> 0])
               => ret.val = [hi |-> 0, lo |-> 2000]
        /\ (arg.unit = "secs" /\ arg.dur = [secs |-> 2, nanos |-> 500000000])
               => ret.val = [hi |-> 0, lo |-> 2]

C6_Witness ==
    /\ op = "time_conversion" /\ pc = "done"
    /\ arg.unit = "millis" /\ arg.dur = [secs |-> 2, nanos |-> 999999]
    /\ ret.val = [hi |-> 0, lo |-> 2000]

\* C7: time_conversion_with_unit(u) fails exactly when time_conversion(u)
\* fails; otherwise its function gives the result of time_conversion(u)'s
\* on every duration and its second component is u unchanged.
C7_WithUnitAgrees ==
    (op = "time_conversion_with_unit" /\ pc # "call") =>
        /\ pc = "panicked" <=> ~time_conversion(arg.unit).ok
        /\ pc = "panicked" => (ret = Panic(time_conversion(arg.unit).f) /\ label = "")
        /\ pc \in {"closure", "done"} =>
              /\ label = arg.unit
              /\ \A d \in Durations : Apply(fn, d) = Apply(time_conversion(arg.unit).f, d)
        /\ pc = "done" => ret.val = Apply(time_conversion(arg.unit).f, arg.dur)

C7_Witness ==
    /\ op = "time_conversion_with_unit" /\ pc = "done"
    /\ arg.unit = "nanos" /\ label = "nanos" /\ fn = "as_nanos"
    /\ arg.dur = [secs |-> 1, nanos |-> 999]
    /\ ret.val = [hi |-> 1, lo |-> 999]

\* C8: measure_time(f) invokes f exactly once, reads the clock before f
\* starts and again after f has returned, and returns the difference of the
\* two readings: it is >= 0 and at least the time f took; f's value is not
\* part of what is returned.
C8_MeasureTime ==
    op = "measure_time" =>
        /\ Len(ftrace) <= 1
        /\ pc \in {"elapsed", "done"} => Len(ftrace) = 1
        /\ pc = "done" =>
              /\ start <= ftrace[1].beg
              /\ ftrace[1].end <= now
              /\ ret.kind = "Duration"
              /\ ret.val = now - start
              /\ ret.val >= 0
              /\ ret.val >= ftrace[1].end - ftrace[1].beg
              /\ ftrace[1].end - ftrace[1].beg = arg.f.dur

C8_Witness ==
    /\ op = "measure_time" /\ pc = "done"
    /\ arg.f = [dur |-> 3, out |-> "v1"]
    /\ Len(ftrace) = 1
    /\ ret.val = 4

\* C9: measure_time_with_value(f) invokes f exactly once and returns (r, d),
\* r the value f returned and d >= 0 the time from a clock reading taken
\* before f started to one taken after f returned.
C9_MeasureTimeWithValue ==
    op = "measure_time_with_value" =>
        /\ Len(ftrace) <= 1
        /\ pc \in {"elapsed", "done"} => Len(ftrace) = 1
        /\ pc = "done" =>
              /\ start <= ftrace[1].beg
              /\ ftrace[1].end <= now
              /\ ret.kind = "Pair"
              /\ ret.val.r = arg.f.out
              /\ ret.val.d = now - start
              /\ ret.val.d >= 0

C9_Witness ==
    /\ op = "measure_time_with_value" /\ pc = "done"
    /\ arg.f = [dur |-> 2, out |-> "v2"]
    /\ ret.val = [r |-> "v2", d |-> 2]

\* the values of the names once the pairs ps have been exchanged, first pair first
RECURSIVE Exchanged(_, _)
Exchanged(env, ps) ==
    IF ps = <<>> THEN env
    ELSE LET p == ps[1]
         IN  Exchanged([env EXCEPT ![p[1]] = env[p[2]], ![p[2]] = env[p[1]]],
                       SubSeq(ps, 2, Len(ps)))
Swapped == {arg.pairs[i][j] : i \in 1 .. k, j \in 1 .. 2}

\* C10: swap! and swap_mut! take their pairs left to right, and each pair
\* leaves the first name bound to the second's prior value and the second to
\* the first's: pairs (a,b) and (c,d) on (1,2,3,4) give (2,1,4,3); after
\* swap_mut! each swapped name can also be assigned to.
C10_SwapForms ==
    op \in SwapOps =>
        /\ pc \in {"call", "done"} =>
              \A n \in Names :
                  Lookup(scope, n).val = Exchanged(arg.env, SubSeq(arg.pairs, 1, k))[n]
        /\ pc # "call" => k = Len(arg.pairs)
        /\ (/\ pc = "done"
            /\ arg.env = [a |-> 1, b |-> 2, c |-> 3, d |-> 4]
            /\ arg.pairs = << <<"a", "b">>, <<"c", "d">> >>)
               => [n \in Names |-> Lookup(scope, n).val] = [a |-> 2, b |-> 1, c |-> 4, d |-> 3]
        /\ op = "swap_mut" => \A n \in Swapped : Lookup(scope, n).mut
        /\ (op = "swap_mut" /\ pc = "done") =>
              \A n \in Swapped : Lookup(scope, n).val # NewValue[n] => ENABLED Reassign(n)
        /\ pc = "assigned" =>
              \A n \in Names :
                  \/ Lookup(scope, n).val = Exchanged(arg.env, arg.pairs)[n]
                  \/ n \in Swapped /\ Lookup(scope, n).val = NewValue[n]

C10_Witness ==
    /\ op = "swap_mut" /\ pc = "assigned"
    /\ arg.env = [a |-> 1, b |-> 2, c |-> 3, d |-> 4]
    /\ arg.pairs = << <<"a", "b">>, <<"c", "d">> >>
    /\ [n \in Names |-> Lookup(scope, n).val] = [a |-> 10, b |-> 1, c |-> 4, d |-> 3]

====
